---- MODULE Spec2Model ----
(***************************************************************************)
(* Model of the multi-query PDF search engine of src-tauri/src/pdf_search.rs *)
(*                                                                         *)
(* Strings are sequences of Unicode code points (a Rust &str seen through  *)
(* .chars()); byte offsets are computed from the UTF-8 width of each code  *)
(* point, because search_in_page slices by byte offset.                    *)
(*                                                                         *)
(* Code points used by the inputs below:                                   *)
(*   9 TAB  10 LF  12 FF  13 CR  32 SPACE  40 (  41 )  45 -  46 .          *)
(*   47 /  48..57 0..9  58 :  65 A  75 K  97 a  107 k  160 NBSP            *)
(*   173 SOFT HYPHEN  178 SUPERSCRIPT TWO                                  *)
(*   8199 FIGURE SPACE  8201 THIN SPACE  8208 HYPHEN  8209 NB HYPHEN       *)
(*   8210 FIGURE DASH  8239 NARROW NBSP  8490 KELVIN SIGN                  *)
(*                                                                         *)
(* The outcome of a call is a record [kind, matches]: kind is "Ok" (the    *)
(* call returned Ok(matches)), "Err" (it returned Err), "Panic" (it        *)
(* panicked) or "Hang" (it never returns); matches is <<>> unless Ok.      *)
(***************************************************************************)
EXTENDS Integers, Sequences, FiniteSets, Bags, TLC

VARIABLES
    pc,             \* position of the modelled call
    text,           \* input string of normalize_text
    norm1,          \* normalize_text(text)
    norm2,          \* normalize_text(normalize_text(text))
    page_text,      \* search_in_page: page_text
    query,          \* search_in_page: query
    use_regex,      \* search_in_page: use_regex
    context_words,  \* context_words of search_in_page / search_pdf_with_queries / SearchParams
    page_result,    \* outcome of search_in_page
    extracted,      \* outcome of extract_text_from_pdf: [kind, pages], page_num = index in pages
    queries,        \* &[QueryItem]
    doc_result,     \* outcome of search_pdf_with_queries
    pdf_files,      \* the corpus: for each file, its extraction outcome
    file_results,   \* per file: outcome of the worker's search_pdf_with_queries, or pending
    search_result,  \* outcome of search_pdfs
    search_start,   \* search_in_page, literal branch: search_start (byte offset)
    zotero_path,    \* SearchParams.zotero_path: "None" or "Some" (a Zotero directory)
    db_exists,      \* build_zotero_map: zotero.sqlite exists under zotero_path
    bbt_exists,     \* build_zotero_map: better-bibtex.sqlite exists under zotero_path
    temp_files,     \* the temporary database copies present in temp_dir
    rows,           \* build_zotero_map: the rows of the attachment query not yet visited
    zotero_map,     \* build_zotero_map: map, from filename to ZoteroMetadata
    zotero_result   \* outcome of build_zotero_map

vars == <<pc, text, norm1, norm2, page_text, query, use_regex, context_words,
          page_result, extracted, queries, doc_result, pdf_files, file_results,
          search_result, search_start, zotero_path, db_exists, bbt_exists,
          temp_files, rows, zotero_map, zotero_result>>

scanVars == <<search_start>>
zoteroVars ==
    <<zotero_path, db_exists, bbt_exists, temp_files, rows, zotero_map, zotero_result>>

-----------------------------------------------------------------------------
(* Bounds of the model *)

MaxNormLen == 3
MaxPageLen == 5
MaxQueryLen == 2
MaxContext == 2
MaxPages == 2
MaxQueries == 2
MaxFiles == 2
MaxScanPageLen == 3
MaxScanQueryLen == 2
MaxScanMatches == 4
MaxRows == 2
MaxPathLen == 2

-----------------------------------------------------------------------------
(* Strings *)

Strings(chars, n) == UNION {[1..k -> chars] : k \in 0..n}

\* char::is_whitespace (Unicode White_Space), used by str::split_whitespace
IsWhitespace(c) ==
    \/ c \in 9..13
    \/ c \in {32, 133, 160, 5760}
    \/ c \in 8192..8202
    \/ c \in {8232, 8233, 8239, 8287, 12288}

\* char::len_utf8
Utf8Len(c) == IF c < 128 THEN 1 ELSE IF c < 2048 THEN 2 ELSE IF c < 65536 THEN 3 ELSE 4

RECURSIVE ByteLen(_)
\* str::len: the length in bytes
ByteLen(s) == IF s = <<>> THEN 0 ELSE Utf8Len(Head(s)) + ByteLen(Tail(s))

\* char lowercase mapping for the code points of the inputs: ASCII capitals,
\* and KELVIN SIGN (U+212A) whose lowercase is k (U+006B)
ToLowerChar(c) == IF c \in 65..90 THEN c + 32 ELSE IF c = 8490 THEN 107 ELSE c

\* str::to_lowercase
to_lowercase(s) == [i \in 1..Len(s) |-> ToLowerChar(s[i])]

RECURSIVE SplitAcc(_, _, _)
SplitAcc(s, cur, acc) ==
    IF s = <<>> THEN (IF cur = <<>> THEN acc ELSE Append(acc, cur))
    ELSE IF IsWhitespace(Head(s))
         THEN SplitAcc(Tail(s), <<>>, IF cur = <<>> THEN acc ELSE Append(acc, cur))
         ELSE SplitAcc(Tail(s), Append(cur, Head(s)), acc)

\* split_into_words: text.split_whitespace() collected
split_into_words(s) == SplitAcc(s, <<>>, <<>>)

RECURSIVE Join(_)
\* Vec<String>::join(" ")
Join(words) ==
    IF words = <<>> THEN <<>>
    ELSE IF Len(words) = 1 THEN words[1]
    ELSE words[1] \o <<32>> \o Join(Tail(words))

-----------------------------------------------------------------------------
(* normalize_text *)

\* the mutant keeps NON-BREAKING HYPHEN (U+2011): one arm of the match forgotten
KeepCharForgets(c) ==
    ~ (c \in {32, 9, 10, 13, 160, 8199, 8239} \/ c \in {45, 173, 8208})

\* the match of normalize_text: None for the listed characters, Some(c) otherwise
KeepChar(c) ==
    CASE c \in {32, 9, 10, 13, 160, 8199, 8239} -> FALSE
      [] c \in {45, 173, 8208, 8209} -> FALSE
      [] OTHER -> TRUE

RECURSIVE normalize_text(_)
normalize_text(s) ==
    IF s = <<>> THEN <<>>
    ELSE IF KeepChar(Head(s)) THEN <<Head(s)>> \o normalize_text(Tail(s))
         ELSE normalize_text(Tail(s))

-----------------------------------------------------------------------------
(* Specification SpecNorm: normalize_text applied once and twice *)

NormChars == {32, 9, 10, 13, 160, 8199, 8239, 45, 173, 8208, 8209,
              12, 8201, 8210, 97}

NormIdle == text = <<>> /\ norm1 = <<>> /\ norm2 = <<>>

PageIdle ==
    /\ page_text = <<>> /\ query = <<>> /\ use_regex = FALSE
    /\ page_result = [kind |-> "None", matches |-> <<>>]

DocIdle ==
    /\ extracted = [kind |-> "None", pages |-> <<>>]
    /\ doc_result = [kind |-> "None", matches |-> <<>>]

CorpusIdle ==
    /\ pdf_files = <<>> /\ file_results = <<>>
    /\ search_result = [kind |-> "None", matches |-> <<>>]

ScanIdle == search_start = 0

ZoteroIdle ==
    /\ zotero_path = "None"
    /\ db_exists = FALSE /\ bbt_exists = FALSE
    /\ temp_files = {} /\ rows = <<>> /\ zotero_map = <<>>
    /\ zotero_result = "None"

InitNorm ==
    /\ pc = "norm_input"
    /\ text \in Strings(NormChars, MaxNormLen)
    /\ norm1 = <<>> /\ norm2 = <<>>
    /\ context_words = 0 /\ queries = <<>>
    /\ PageIdle /\ DocIdle /\ CorpusIdle /\ ScanIdle /\ ZoteroIdle

NormalizeOnce ==
    /\ pc = "norm_input"
    /\ norm1' = normalize_text(text)
    /\ pc' = "norm_once"
    /\ UNCHANGED <<text, norm2, page_text, query, use_regex, context_words,
                   page_result, extracted, queries, doc_result, pdf_files,
                   file_results, search_result>>
    /\ UNCHANGED <<scanVars, zoteroVars>>

NormalizeTwice ==
    /\ pc = "norm_once"
    /\ norm2' = normalize_text(norm1)
    /\ pc' = "norm_twice"
    /\ UNCHANGED <<text, norm1, page_text, query, use_regex, context_words,
                   page_result, extracted, queries, doc_result, pdf_files,
                   file_results, search_result>>
    /\ UNCHANGED <<scanVars, zoteroVars>>

NextNorm == NormalizeOnce \/ NormalizeTwice

SpecNorm == InitNorm /\ [][NextNorm]_vars

\* the characters the claim lists: the whitespace and hyphen characters
ListedWhitespace == {32, 9, 10, 13, 160, 8199, 8239}
ListedHyphens == {45, 173, 8208, 8209}
IsListed(c) == c \in ListedWhitespace \cup ListedHyphens

\* C7: normalization is idempotent, and normalize_text(s) is s with exactly
\* the listed whitespace and hyphen characters deleted, all other characters
\* kept in their relative order.
C7_NormalizeIdempotent ==
    /\ pc \in {"norm_once", "norm_twice"} =>
          norm1 = SelectSeq(text, LAMBDA c : ~ IsListed(c))
    /\ pc = "norm_twice" => norm2 = norm1

\* a string holding a listed and an unlisted separator has been normalized twice
C7_Witness ==
    /\ pc = "norm_twice"
    /\ \E i \in 1..Len(text) : IsListed(text[i])
    /\ \E i \in 1..Len(text) : text[i] \in {12, 8201, 8210}
    /\ Len(norm1) < Len(text)
    /\ norm1 # <<>>

-----------------------------------------------------------------------------
(* search_in_page *)

Min(a, b) == IF a < b THEN a ELSE b

Ok(ms) == [kind |-> "Ok", matches |-> ms]
Err == [kind |-> "Err", matches |-> <<>>]
Panic == [kind |-> "Panic", matches |-> <<>>]
Hang == [kind |-> "Hang", matches |-> <<>>]

\* before_words.iter().rev().take(context_words).rev()
TakeLast(words, n) == SubSeq(words, Len(words) - Min(n, Len(words)) + 1, Len(words))

\* after_words.iter().take(context_words)
TakeFirst(words, n) == SubSeq(words, 1, Min(n, Len(words)))

\* the tuple pushed for one match, from the text before it, the matched text
\* and the text after it
MatchTuple(before_text, matched_text, after_text, n) ==
    [context_before |-> Join(TakeLast(split_into_words(before_text), n)),
     matched_text   |-> matched_text,
     context_after  |-> Join(TakeFirst(split_into_words(after_text), n))]

\* The regex syntax of the inputs: a literal code point, '.', and groups
\* '(' ... ')'.  Regex::new fails on an unclosed or unopened group.
RECURSIVE ParensBalanced(_, _)
ParensBalanced(pat, depth) ==
    IF pat = <<>> THEN depth = 0
    ELSE IF Head(pat) = 40 THEN ParensBalanced(Tail(pat), depth + 1)
    ELSE IF Head(pat) = 41 THEN depth > 0 /\ ParensBalanced(Tail(pat), depth - 1)
    ELSE ParensBalanced(Tail(pat), depth)

\* Regex::new(&format!("(?i){}", normalized_query)) is Ok
RegexCompiles(pat) == ParensBalanced(pat, 0)

\* the atoms of a compiled pattern, in order: groups only bracket them
RegexAtoms(pat) == SelectSeq(pat, LAMBDA c : c # 40 /\ c # 41)

\* simple case folding of (?i) for the code points of the inputs:
\* A-Z with a-z, and KELVIN SIGN with k and K
CaseFold(c) == IF c \in 65..90 THEN c + 32 ELSE IF c = 8490 THEN 107 ELSE c

\* one atom against one code point: '.' is any code point but LF
AtomMatches(a, c) == IF a = 46 THEN c # 10 ELSE CaseFold(a) = CaseFold(c)

\* the atoms match the text at char offset j
AtomsMatchAt(P, atoms, j) ==
    /\ j + Len(atoms) <= Len(P)
    /\ \A i \in 1..Len(atoms) : AtomMatches(atoms[i], P[j + i])

\* leftmost char offset >= i at which the atoms match, or -1
RegexFindFrom(P, atoms, i) ==
    LET hits == {j \in i..Len(P) : AtomsMatchAt(P, atoms, j)}
    IN  IF hits = {} THEN -1 ELSE CHOOSE j \in hits : \A h \in hits : j <= h

RECURSIVE RegexSpans(_, _, _, _)
\* pattern.find_iter: the spans <<match_start, match_end>> (char offsets),
\* leftmost first and not overlapping; an empty match advances by one char
RegexSpans(P, atoms, i, acc) ==
    IF i > Len(P) THEN acc
    ELSE LET j == RegexFindFrom(P, atoms, i)
         IN  IF j = -1 THEN acc
             ELSE IF atoms = <<>>
                  THEN RegexSpans(P, atoms, j + 1, Append(acc, <<j, j>>))
                  ELSE RegexSpans(P, atoms, j + Len(atoms),
                                  Append(acc, <<j, j + Len(atoms)>>))

\* str::find from a char offset of the lowercased page: the char offset of
\* the first occurrence at or after i, or -1
LiteralFindFrom(L, Q, i) ==
    LET hits == {j \in i..(Len(L) - Len(Q)) : SubSeq(L, j + 1, j + Len(Q)) = Q}
    IN  IF hits = {} THEN -1 ELSE CHOOSE j \in hits : \A h \in hits : j <= h

\* the char offset of normalized_page at byte offset b, or -1 when b is not a
\* char boundary of it (slicing there panics)
CharBoundary(P, b) ==
    LET ks == {k \in 0..Len(P) : ByteLen(SubSeq(P, 1, k)) = b}
    IN  IF ks = {} THEN -1 ELSE CHOOSE k \in ks : TRUE

OkSpans(sp) == [kind |-> "Ok", spans |-> sp]
NoSpans(k) == [kind |-> k, spans |-> <<>>]

RECURSIVE LiteralSpans(_, _, _, _, _)
\* the while-let loop of the literal branch.  match_pos is found in the
\* lowercased page L; absolute_pos and match_end are byte offsets of L, and
\* the loop slices normalized_page P with them.  The result is the sequence
\* of spans of P (char offsets), or "Panic" when a slice is off a char
\* boundary of P.
LiteralSpans(P, L, Q, i, acc) ==
    LET j == LiteralFindFrom(L, Q, i)
    IN  IF j = -1 THEN OkSpans(acc)
        ELSE LET absolute_pos == ByteLen(SubSeq(L, 1, j))
                 match_end    == absolute_pos + ByteLen(Q)
                 s == CharBoundary(P, absolute_pos)
                 e == CharBoundary(P, match_end)
             IN  IF s = -1 \/ e = -1 THEN NoSpans("Panic")
                 ELSE LiteralSpans(P, L, Q, j + Len(Q), Append(acc, <<s, e>>))

\* the spans <<start, end>> of normalized_page that search_in_page turns into
\* tuples, with kind "Ok"; or kind "Err" (the pattern does not compile),
\* "Panic", or "Hang" (the empty search_query is found at search_start
\* forever, since match_end = search_start)
MatchSpans(page, q, is_regex) ==
    LET normalized_query == normalize_text(q)
        normalized_page  == normalize_text(page)
    IN  IF is_regex
        THEN IF ~ RegexCompiles(normalized_query) THEN NoSpans("Err")
             ELSE OkSpans(RegexSpans(normalized_page, RegexAtoms(normalized_query),
                                     0, <<>>))
        ELSE LET search_query == to_lowercase(normalized_query)
                 normalized_page_lower == to_lowercase(normalized_page)
             IN  IF search_query = <<>> THEN NoSpans("Hang")
                 ELSE LiteralSpans(normalized_page, normalized_page_lower,
                                   search_query, 0, <<>>)

search_in_page(page, q, n, is_regex) ==
    LET normalized_page == normalize_text(page)
        found == MatchSpans(page, q, is_regex)
        spans == found.spans
    IN  IF found.kind = "Err" THEN Err
        ELSE IF found.kind = "Panic" THEN Panic
        ELSE IF found.kind = "Hang" THEN Hang
        ELSE Ok([i \in 1..Len(spans) |->
                    MatchTuple(SubSeq(normalized_page, 1, spans[i][1]),
                               SubSeq(normalized_page, spans[i][1] + 1, spans[i][2]),
                               SubSeq(normalized_page, spans[i][2] + 1, Len(normalized_page)),
                               n)])

-----------------------------------------------------------------------------
(* Specification SpecPage: one call of search_in_page *)

PageChars == {107, 75, 8490, 32, 12}
QueryChars == {107, 75, 40, 41, 46, 45}

InitPage ==
    /\ pc = "page_input"
    /\ page_text \in Strings(PageChars, MaxPageLen)
    /\ query \in Strings(QueryChars, MaxQueryLen)
    /\ use_regex \in BOOLEAN
    /\ context_words \in 0..MaxContext
    /\ page_result = [kind |-> "None", matches |-> <<>>]
    /\ queries = <<>>
    /\ NormIdle /\ DocIdle /\ CorpusIdle /\ ScanIdle /\ ZoteroIdle

SearchInPage ==
    /\ pc = "page_input"
    /\ page_result' = search_in_page(page_text, query, context_words, use_regex)
    /\ pc' = "page_done"
    /\ UNCHANGED <<text, norm1, norm2, page_text, query, use_regex, context_words,
                   extracted, queries, doc_result, pdf_files, file_results,
                   search_result>>
    /\ UNCHANGED <<scanVars, zoteroVars>>

NextPage == SearchInPage

SpecPage == InitPage /\ [][NextPage]_vars

\* index in the raw page of the k-th character that normalize_text keeps
RawIndex(page, k) ==
    CHOOSE r \in 1..Len(page) :
        /\ KeepChar(page[r])
        /\ Len(normalize_text(SubSeq(page, 1, r))) = k

\* the words of the raw page that lie wholly before index r
WordsBefore(page, r) ==
    LET pre == SubSeq(page, 1, r - 1)
    IN  Len(split_into_words(pre))
          - (IF pre # <<>> /\ ~ IsWhitespace(pre[Len(pre)]) THEN 1 ELSE 0)

\* the words of the raw page that lie wholly after index r
WordsAfter(page, r) ==
    LET suf == SubSeq(page, r + 1, Len(page))
    IN  Len(split_into_words(suf))
          - (IF suf # <<>> /\ ~ IsWhitespace(suf[1]) THEN 1 ELSE 0)

\* C5: every match returned by search_in_page has contexts of at most
\* context_words whitespace-separated tokens each, and a side has fewer than
\* context_words tokens only when fewer than context_words words of the page
\* lie on that side of the match.
C5_ContextWindows ==
    (pc = "page_done" /\ page_result.kind = "Ok") =>
        \A i \in 1..Len(page_result.matches) :
            LET m  == page_result.matches[i]
                sp == MatchSpans(page_text, query, use_regex).spans[i]
                nb == Len(split_into_words(m.context_before))
                na == Len(split_into_words(m.context_after))
            IN  /\ nb <= context_words
                /\ na <= context_words
                /\ sp[1] < sp[2] =>
                     /\ nb < context_words =>
                          WordsBefore(page_text, RawIndex(page_text, sp[1] + 1))
                             < context_words
                     /\ na < context_words =>
                          WordsAfter(page_text, RawIndex(page_text, sp[2]))
                             < context_words

Contains(T, Q) ==
    \E j \in 0..(Len(T) - Len(Q)) : SubSeq(T, j + 1, j + Len(Q)) = Q

\* C6: for a literal query q and a page T such that normalize(T) contains
\* normalize(q) as a contiguous substring, search_in_page returns at least
\* one match, and a returned match's matched_text normalizes back to
\* normalize(q).
C6_LiteralMatchExists ==
    (/\ pc = "page_done"
     /\ ~ use_regex
     /\ Contains(normalize_text(page_text), normalize_text(query))) =>
        /\ page_result.kind = "Ok"
        /\ \E i \in 1..Len(page_result.matches) :
              normalize_text(page_result.matches[i].matched_text)
                 = normalize_text(query)

-----------------------------------------------------------------------------
(* build_zotero_map: rows of the attachment query and the metadata of a row *)

\* Option values: None, and Some(x)
None == [some |-> FALSE, v |-> <<>>]
Some(x) == [some |-> TRUE, v |-> x]

\* an attachment row as the loop sees it: the columns of the row, and the
\* outcomes of the lookups made for its item (get_item_field title and date,
\* get_item_creators, get_better_bibtex_citekey), each with .ok().flatten()
\* applied
Row(path, parent_key, title, date, authors, bibtex_citekey) ==
    [ok |-> TRUE, attachment_key |-> <<65>>, path |-> path,
     parent_key |-> parent_key, title |-> title, date |-> date,
     authors |-> authors, bibtex_citekey |-> bibtex_citekey]

\* a row that is Err, and a row without parent item whose lookups find nothing
RowErr == [Row(<<>>, None, None, None, None, None) EXCEPT !.ok = FALSE]
RowOk(p) == Row(p, None, None, None, None, None)

\* path.rfind(c): the char offset of the last c in path, or -1
RFind(path, c) ==
    LET is == {i \in 1..Len(path) : path[i] = c}
    IN  IF is = {} THEN -1 ELSE (CHOOSE i \in is : \A j \in is : j <= i) - 1

\* the filename of an attachment path: what follows the last ':', otherwise
\* what follows the last '/'
Filename(path) ==
    LET colon_pos == RFind(path, 58)
        slash_pos == RFind(path, 47)
    IN  IF colon_pos # -1 THEN SubSeq(path, colon_pos + 2, Len(path))
        ELSE SubSeq(path, slash_pos + 2, Len(path))

\* char::is_numeric on the code points of the model: the ASCII digits and
\* SUPERSCRIPT TWO
IsNumeric(c) == c \in 48..57 \/ c = 178

RECURSIVE SplitNonNumeric(_, _, _)
\* date_str.split(|c| !c.is_numeric()): the parts, empty ones included
SplitNonNumeric(s, cur, acc) ==
    IF s = <<>> THEN Append(acc, cur)
    ELSE IF IsNumeric(Head(s)) THEN SplitNonNumeric(Tail(s), Append(cur, Head(s)), acc)
    ELSE SplitNonNumeric(Tail(s), <<>>, Append(acc, cur))

RECURSIVE DigitsValue(_)
DigitsValue(part) ==
    IF part = <<>> THEN 0
    ELSE 10 * DigitsValue(SubSeq(part, 1, Len(part) - 1)) + (part[Len(part)] - 48)

\* part.parse::<i32>() of a part of at most four bytes: the value, or -1 for
\* Err (an empty part, or a char that is not an ASCII digit)
ParseI32(part) ==
    IF part # <<>> /\ \A i \in 1..Len(part) : part[i] \in 48..57
    THEN DigitsValue(part) ELSE -1

RECURSIVE ToDigits(_)
\* year.to_string() of a positive year
ToDigits(n) ==
    IF n < 10 THEN <<48 + n>> ELSE Append(ToDigits(n \div 10), 48 + (n % 10))

\* the first part of four bytes that parses to a year of 1000..9999
extract_year(date) ==
    IF ~ date.some THEN None
    ELSE LET parts == SplitNonNumeric(date.v, <<>>, <<>>)
             years == {i \in 1..Len(parts) :
                          /\ ByteLen(parts[i]) = 4
                          /\ ParseI32(parts[i]) >= 1000
                          /\ ParseI32(parts[i]) <= 9999}
         IN  IF years = {} THEN None
             ELSE Some(ToDigits(ParseI32(parts[CHOOSE i \in years :
                                                  \A j \in years : i <= j])))

\* "zotero://select/library/items/"
ZoteroLinkPrefix ==
    <<122, 111, 116, 101, 114, 111, 58, 47, 47, 115, 101, 108, 101, 99, 116, 47,
      108, 105, 98, 114, 97, 114, 121, 47, 105, 116, 101, 109, 115, 47>>

\* the ZoteroMetadata inserted for a row; has_bbt: bbt_conn is Some
Metadata(row, has_bbt) ==
    LET item_key == IF row.parent_key.some THEN row.parent_key.v
                    ELSE row.attachment_key
        bibtex_citekey == IF has_bbt THEN row.bibtex_citekey ELSE None
    IN  [citekey            |-> IF bibtex_citekey.some THEN bibtex_citekey.v
                                ELSE item_key,
         title              |-> row.title,
         year               |-> extract_year(row.date),
         authors            |-> row.authors,
         zotero_link        |-> ZoteroLinkPrefix \o item_key,
         pdf_attachment_key |-> Some(row.attachment_key)]

\* map.insert(filename, metadata): a later row replaces an earlier one with
\* the same filename
MapInsert(map, k, v) ==
    [x \in (DOMAIN map) \cup {k} |-> IF x = k THEN v ELSE map[x]]

-----------------------------------------------------------------------------
(* search_pdf_with_queries *)

\* queries.iter().filter(|q| q.query_type == t)
QueriesOfType(qs, t) == SelectSeq(qs, LAMBDA q : q.query_type = t)

\* pdf_path.file_name() of the file pdf_path of the corpus: "a.pdf", "b.pdf", ..
FileName(pdf_path) == <<96 + pdf_path, 46, 112, 100, 102>>

\* zotero_map.and_then(|map| map.get(&file_name)), mapped to the pair
\* (zotero_link, zotero_metadata); (None, None) without a map or an entry
ZoteroLookup(zm, file_name) ==
    IF zm.some /\ file_name \in DOMAIN zm.v
    THEN [zotero_link     |-> Some(zm.v[file_name].zotero_link),
          zotero_metadata |-> Some(zm.v[file_name])]
    ELSE [zotero_link |-> None, zotero_metadata |-> None]

\* the SearchMatch pushed for one tuple of search_in_page; z is the pair
\* (zotero_link, zotero_metadata) of the file
ToSearchMatch(pdf_path, page_num, t, z) ==
    [file_path       |-> pdf_path,
     file_name       |-> FileName(pdf_path),
     page_number     |-> page_num,
     context_before  |-> t.context_before,
     matched_text    |-> t.matched_text,
     context_after   |-> t.context_after,
     zotero_link     |-> z.zotero_link,
     zotero_metadata |-> z.zotero_metadata]

RECURSIVE FoundInPdf(_, _, _, _)
\* the inner loop of the filter pass from page p on: "Found" at the first page
\* with a match (break), "NotFound" after the last page, or the kind of the
\* search_in_page call that did not return Ok (the ? operator, a panic, a hang)
FoundInPdf(pgs, q, n, p) ==
    IF p > Len(pgs) THEN "NotFound"
    ELSE LET r == search_in_page(pgs[p], q.query, n, q.use_regex)
         IN  IF r.kind # "Ok" THEN r.kind
             ELSE IF r.matches # <<>> THEN "Found"
             ELSE FoundInPdf(pgs, q, n, p + 1)

RECURSIVE FilterPassKeepsAll(_, _, _)
\* the mutant never rejects a document: a filter that is not found is skipped
FilterPassKeepsAll(pgs, fqs, n) ==
    IF fqs = <<>> THEN "Pass"
    ELSE LET f == FoundInPdf(pgs, Head(fqs), n, 1)
         IN  IF f \in {"Found", "NotFound"} THEN FilterPassKeepsAll(pgs, Tail(fqs), n)
             ELSE f

RECURSIVE FilterPassRec(_, _, _)
FilterPassRec(pgs, fqs, n) ==
    IF fqs = <<>> THEN "Pass"
    ELSE LET f == FoundInPdf(pgs, Head(fqs), n, 1)
         IN  IF f = "Found" THEN FilterPassRec(pgs, Tail(fqs), n)
             ELSE IF f = "NotFound" THEN "Reject"
             ELSE f

\* the filter pass over filter_queries: "Pass", "Reject" (return Ok(Vec::new())
\* at the first filter found on no page), or the kind of a failed call
FilterPass(pgs, fqs, n) == FilterPassRec(pgs, fqs, n)

\* mutants of the fallback: none; the last query; every filter query
QueriesToSearchNoFallback(qs) == QueriesOfType(qs, "parallel")
QueriesToSearchLast(qs) ==
    IF QueriesOfType(qs, "parallel") = <<>> /\ qs # <<>>
    THEN <<qs[Len(qs)]>> ELSE QueriesOfType(qs, "parallel")
QueriesToSearchFilters(qs) ==
    IF QueriesOfType(qs, "parallel") = <<>> /\ qs # <<>>
    THEN (IF QueriesOfType(qs, "filter") # <<>>
          THEN QueriesOfType(qs, "filter") ELSE <<qs[1]>>)
    ELSE QueriesOfType(qs, "parallel")

\* queries_to_search: the parallel queries, or the first query when none is
\* tagged parallel
queries_to_search(qs) ==
    IF QueriesOfType(qs, "parallel") = <<>> /\ qs # <<>>
    THEN <<qs[1]>> ELSE QueriesOfType(qs, "parallel")

RECURSIVE ParallelLoop(_, _, _, _, _, _, _, _)
\* the nested for loops of the parallel pass, at query qi and page p, with
\* final_results = acc
ParallelLoop(pdf_path, pgs, qts, n, z, qi, p, acc) ==
    IF qi > Len(qts) THEN Ok(acc)
    ELSE IF p > Len(pgs) THEN ParallelLoop(pdf_path, pgs, qts, n, z, qi + 1, 1, acc)
    ELSE LET r == search_in_page(pgs[p], qts[qi].query, n, qts[qi].use_regex)
         IN  IF r.kind # "Ok" THEN [kind |-> r.kind, matches |-> <<>>]
             ELSE ParallelLoop(pdf_path, pgs, qts, n, z, qi, p + 1,
                     acc \o [i \in 1..Len(r.matches) |->
                                ToSearchMatch(pdf_path, p, r.matches[i], z)])

RECURSIVE ParallelLoopPagesOuter(_, _, _, _, _, _, _, _)
ParallelLoopPagesOuter(pdf_path, pgs, qts, n, z, qi, p, acc) ==
    IF p > Len(pgs) THEN Ok(acc)
    ELSE IF qi > Len(qts) THEN ParallelLoopPagesOuter(pdf_path, pgs, qts, n, z, 1, p + 1, acc)
    ELSE LET r == search_in_page(pgs[p], qts[qi].query, n, qts[qi].use_regex)
         IN  IF r.kind # "Ok" THEN [kind |-> r.kind, matches |-> <<>>]
             ELSE ParallelLoopPagesOuter(pdf_path, pgs, qts, n, z, qi + 1, p,
                     acc \o [i \in 1..Len(r.matches) |->
                                ToSearchMatch(pdf_path, p, r.matches[i], z)])

\* the mutant loops over the pages outside and the queries inside
ParallelPassPagesOuter(pdf_path, pgs, qts, n, z) ==
    ParallelLoopPagesOuter(pdf_path, pgs, qts, n, z, 1, 1, <<>>)

\* the parallel pass: queries outside, pages inside
ParallelPass(pdf_path, pgs, qts, n, z) ==
    ParallelLoop(pdf_path, pgs, qts, n, z, 1, 1, <<>>)

\* search_pdf_with_queries on a file whose extract_text_from_pdf outcome is
\* ext; zm is the argument zotero_map (an Option)
search_pdf_with_queries(pdf_path, ext, qs, n, zm) ==
    IF ext.kind # "Ok" THEN Err
    ELSE LET z  == ZoteroLookup(zm, FileName(pdf_path))
             fp == FilterPass(ext.pages, QueriesOfType(qs, "filter"), n)
         IN  IF fp = "Reject" THEN Ok(<<>>)
             ELSE IF fp = "Pass"
                  THEN ParallelPass(pdf_path, ext.pages, queries_to_search(qs), n, z)
             ELSE [kind |-> fp, matches |-> <<>>]

-----------------------------------------------------------------------------
(* Specification SpecDoc: one call of search_pdf_with_queries *)

\* page texts: empty, "a", "kak", KELVIN SIGN + "a"
DocPageTexts == {<<>>, <<97>>, <<107, 97, 107>>, <<8490, 97>>}

\* queries: literal a, literal k, regex k, regex "(" and literal "-"
DocQueryChoices ==
    {[query |-> <<97>>,  use_regex |-> FALSE],
     [query |-> <<107>>, use_regex |-> FALSE],
     [query |-> <<107>>, use_regex |-> TRUE],
     [query |-> <<40>>,  use_regex |-> TRUE],
     [query |-> <<45>>,  use_regex |-> FALSE]}

\* the two roles, and a role string that is neither (for the literal a and the
\* regex k)
QueryItems ==
    {[query |-> c.query, use_regex |-> c.use_regex, query_type |-> t] :
        c \in DocQueryChoices, t \in {"parallel", "filter"}}
    \cup
    {[query |-> <<97>>,  use_regex |-> FALSE, query_type |-> "other"],
     [query |-> <<107>>, use_regex |-> TRUE,  query_type |-> "other"]}

SeqsUpTo(S, n) == UNION {[1..k -> S] : k \in 0..n}

Extractions ==
    {[kind |-> "Err", pages |-> <<>>]} \cup
    {[kind |-> "Ok", pages |-> ps] : ps \in SeqsUpTo(DocPageTexts, MaxPages)}

\* context_words of the corpus runs and of the literal scan
ContextChoices == {0, 1}

\* context_words of the document runs
DocContexts == {1}

DocPath == 1

\* a map built by build_zotero_map that holds the file of the call: an
\* attachment "storage:a.pdf" with a parent item, a title and the date "2023"
DocZoteroMap ==
    MapInsert(<<>>, FileName(DocPath),
              Metadata(Row(<<58>> \o FileName(DocPath), Some(<<80>>), Some(<<84>>),
                           Some(<<50, 48, 50, 51>>), None, None), FALSE))

\* the zotero_map of search_pdfs: Some(map) when build_zotero_map returned
\* Ok(map), None when it returned Err or was not called
ZoteroMapArg == IF zotero_result = "Ok" THEN Some(zotero_map) ELSE None

InitDoc ==
    /\ pc = "doc_input"
    /\ extracted \in Extractions
    /\ queries \in SeqsUpTo(QueryItems, MaxQueries)
    /\ context_words \in DocContexts
    /\ doc_result = [kind |-> "None", matches |-> <<>>]
    /\ zotero_path = "None" /\ db_exists = FALSE /\ bbt_exists = FALSE
    /\ temp_files = {} /\ rows = <<>>
    /\ \/ zotero_result = "None" /\ zotero_map = <<>>
       \/ zotero_result = "Ok" /\ zotero_map = DocZoteroMap
    /\ NormIdle /\ PageIdle /\ CorpusIdle /\ ScanIdle

SearchPdfWithQueries ==
    /\ pc = "doc_input"
    /\ doc_result' = search_pdf_with_queries(DocPath, extracted, queries,
                                              context_words, ZoteroMapArg)
    /\ pc' = "doc_done"
    /\ UNCHANGED <<text, norm1, norm2, page_text, query, use_regex, context_words,
                   page_result, extracted, queries, pdf_files, file_results,
                   search_result>>
    /\ UNCHANGED <<scanVars, zoteroVars>>

NextDoc == SearchPdfWithQueries

SpecDoc == InitDoc /\ [][NextDoc]_vars

-----------------------------------------------------------------------------
(* Claims about search_pdf_with_queries, stated over the Page Matcher's
   results on the pages of the document *)

DocDone == pc = "doc_done" /\ extracted.kind = "Ok"

NumPages == Len(extracted.pages)

\* search_in_page's outcome for query item q on page p
PageHits(q, p) ==
    search_in_page(extracted.pages[p], q.query, context_words, q.use_regex)

\* search_in_page's matches for q on page p, as Matches of that page
PageMatches(q, p) ==
    [i \in 1..Len(PageHits(q, p).matches) |->
        ToSearchMatch(DocPath, p, PageHits(q, p).matches[i],
                      ZoteroLookup(ZoteroMapArg, FileName(DocPath)))]

\* q has a match on some page of the document
FoundSomewhere(q) == \E p \in 1..NumPages : PageHits(q, p).matches # <<>>

\* the Page Matcher returns a list for q on every page
ReturnsOnAllPages(q) == \A p \in 1..NumPages : PageHits(q, p).kind = "Ok"

IsTagged(i, t) == queries[i].query_type = t

FilterIdx == {i \in 1..Len(queries) : IsTagged(i, "filter")}
ParallelIdx == {i \in 1..Len(queries) : IsTagged(i, "parallel")}

SatisfiesEveryFilter == \A i \in FilterIdx : FoundSomewhere(queries[i])

RECURSIVE Concat(_)
Concat(ss) == IF ss = <<>> THEN <<>> ELSE Head(ss) \o Concat(Tail(ss))

\* C1: if at least one filter query has no match on any page of the
\* document, the document yields zero matches, however many parallel queries
\* match in it; and the call returns the empty list whenever the Page Matcher
\* returns a list for every filter query on every page.
C1_FilterSemantics ==
    (DocDone /\ \E i \in FilterIdx : ~ FoundSomewhere(queries[i])) =>
        /\ doc_result.matches = <<>>
        /\ (\A i \in FilterIdx : ReturnsOnAllPages(queries[i])) =>
              doc_result = Ok(<<>>)

\* a filter is missing from a document in which a parallel query matches
C1_Witness ==
    /\ DocDone
    /\ \E i \in FilterIdx : ~ FoundSomewhere(queries[i])
    /\ \E i \in ParallelIdx : FoundSomewhere(queries[i])
    /\ doc_result = Ok(<<>>)

\* C2: a list of exactly one query that is not tagged parallel yields the
\* same outcome (the same matches in the same order, or the same failure) as
\* the list holding the same query tagged parallel.
C2_SingleQueryCompat ==
    (pc = "doc_done" /\ Len(queries) = 1 /\ ~ IsTagged(1, "parallel")) =>
        doc_result =
            search_pdf_with_queries(DocPath, extracted,
                <<[queries[1] EXCEPT !.query_type = "parallel"]>>, context_words,
                ZoteroMapArg)

\* a single filter-tagged query that matches in the document has been searched
C2_Witness ==
    /\ DocDone /\ Len(queries) = 1 /\ IsTagged(1, "filter")
    /\ doc_result.kind = "Ok" /\ Len(doc_result.matches) >= 2

\* the parallel queries, in list order
ParallelSeq == QueriesOfType(queries, "parallel")

\* the concatenation over the parallel queries (outer) and the pages (inner)
\* of the Page Matcher's matches, each with its page's 1-based index
ParallelExpected ==
    Concat([k \in 1..(Len(ParallelSeq) * NumPages) |->
              PageMatches(ParallelSeq[((k - 1) \div NumPages) + 1],
                          ((k - 1) % NumPages) + 1)])

\* C8: for a document that satisfies every filter and a list with at least
\* one parallel query, the returned list is the ordered concatenation, over
\* the parallel queries in list order and the pages in page order, of
\* search_in_page's results (wherever it returns a list for the filter and
\* parallel queries), each match carrying the 1-based index of a page of the
\* extraction result; nothing is deduplicated.
C8_ParallelPassOutput ==
    (/\ DocDone
     /\ ParallelIdx # {}
     /\ SatisfiesEveryFilter
     /\ \A i \in FilterIdx \cup ParallelIdx : ReturnsOnAllPages(queries[i])) =>
        /\ doc_result = Ok(ParallelExpected)
        /\ \A k \in 1..Len(doc_result.matches) :
              doc_result.matches[k].page_number \in 1..NumPages

\* two parallel queries matched the same span of a page of a two-page
\* document: the span appears as two Matches
C8_Witness ==
    /\ DocDone /\ NumPages = 2 /\ Cardinality(ParallelIdx) = 2
    /\ SatisfiesEveryFilter
    /\ doc_result.kind = "Ok"
    /\ \E i, j \in 1..Len(doc_result.matches) :
          /\ i < j
          /\ doc_result.matches[i] = doc_result.matches[j]
    /\ \E i, j \in 1..Len(doc_result.matches) :
          /\ i < j
          /\ doc_result.matches[i].page_number > doc_result.matches[j].page_number

\* C9: when no query of a non-empty list is tagged parallel and the document
\* satisfies every filter, the returned matches are exactly the first
\* query's matches over all pages, in page order.
C9_FallbackFirstQuery ==
    (/\ DocDone
     /\ queries # <<>>
     /\ ParallelIdx = {}
     /\ SatisfiesEveryFilter
     /\ \A i \in FilterIdx \cup {1} : ReturnsOnAllPages(queries[i])) =>
        doc_result = Ok(Concat([p \in 1..NumPages |-> PageMatches(queries[1], p)]))

\* two filters, both found in the document, and the first one is reported
C9_Witness ==
    /\ DocDone /\ Len(queries) = 2 /\ FilterIdx = {1, 2}
    /\ queries[1].query # queries[2].query
    /\ SatisfiesEveryFilter
    /\ doc_result.kind = "Ok" /\ doc_result.matches # <<>>

AllFilters == Len(queries) >= 2 /\ FilterIdx = 1..Len(queries)

\* C10 as claimed: a list of two or more queries all tagged filter returns
\* zero matches for every document.
C10_FiltersEmitNothing ==
    (DocDone /\ AllFilters) => doc_result.matches = <<>>

\* C10 as amended: for a list of two or more queries all tagged filter, a
\* returned list is empty exactly when some filter query is found on no page
\* of the document; otherwise it holds matches, each of them one of the first
\* query's matches.
C10_FiltersEmitFirstQuery ==
    (DocDone /\ AllFilters /\ doc_result.kind = "Ok") =>
        /\ doc_result.matches = <<>> <=> ~ SatisfiesEveryFilter
        /\ \A k \in 1..Len(doc_result.matches) :
              \E p \in 1..NumPages : \E i \in 1..Len(PageMatches(queries[1], p)) :
                  doc_result.matches[k] = PageMatches(queries[1], p)[i]

\* a document holding both terms of an all-filter list returned matches
C10_Witness ==
    /\ DocDone /\ AllFilters
    /\ queries[1].query # queries[2].query
    /\ doc_result.kind = "Ok" /\ Len(doc_result.matches) >= 1
    /\ \E p \in 1..NumPages : PageHits(queries[2], p).matches # <<>>

-----------------------------------------------------------------------------
(* Specification SpecZotero: build_zotero_map, one fallible call per step.
   temp_files is the set of snapshot files present in the temp directory;
   zotero_result is "None" while the call runs, "Ok" when it returns the map,
   and otherwise names the error it returns. *)

\* zotero_temp_{pid}.sqlite and better-bibtex_temp_{pid}.sqlite
TempDb == "zotero_temp"
TempBbt == "better-bibtex_temp"

\* attachment paths over ':', '/' and 'a'
PathChars == {58, 47, 97}

\* rows whose item has a parent, a title, authors, a citation key and a date:
\* "2023", and SUPERSCRIPT TWO twice, SPACE, "0999", SPACE, "1999"
RichRows ==
    {Row(<<58, 97>>, Some(<<80>>), Some(<<84>>), Some(<<50, 48, 50, 51>>),
         Some(<<85>>), Some(<<67>>)),
     Row(<<97>>, None, None,
         Some(<<178, 178, 32, 48, 57, 57, 57, 32, 49, 57, 57, 57>>),
         None, Some(<<67>>))}

\* what the rows iterator yields: Err, or Ok with an attachment path
RowChoices ==
    {RowErr} \cup {RowOk(p) : p \in Strings(PathChars, MaxPathLen)} \cup RichRows

InitZotero ==
    /\ pc = "z_start"
    /\ db_exists \in BOOLEAN
    /\ bbt_exists \in BOOLEAN
    /\ rows \in SeqsUpTo(RowChoices, MaxRows)
    /\ temp_files = {}
    /\ zotero_map = <<>>
    /\ zotero_result = "None"
    /\ zotero_path = "Some"
    /\ context_words = 0
    /\ queries = <<>>
    /\ NormIdle /\ PageIdle /\ DocIdle /\ CorpusIdle /\ ScanIdle

ZoteroOthers ==
    UNCHANGED <<text, norm1, norm2, page_text, query, use_regex, context_words,
                page_result, extracted, queries, doc_result, pdf_files,
                file_results, search_result, search_start>>

\* the call returns Err(e) from where it is; nothing else is done
ZoteroFail(e) ==
    /\ zotero_result' = e
    /\ pc' = "z_returned"

\* if !db_path.exists() { return Err(..) }
CheckDbExists ==
    /\ pc = "z_start"
    /\ IF db_exists
       THEN pc' = "z_copy_db" /\ UNCHANGED zotero_result
       ELSE ZoteroFail("ErrNotFound")
    /\ UNCHANGED <<zotero_path, db_exists, bbt_exists, temp_files, rows, zotero_map>>
    /\ ZoteroOthers

\* std::fs::copy(&db_path, &temp_db_path)?; a failed copy may have created
\* the destination already
CopyDb ==
    /\ pc = "z_copy_db"
    /\ \E copied \in BOOLEAN, created \in BOOLEAN :
         /\ copied => created
         /\ temp_files' = IF created THEN temp_files \cup {TempDb} ELSE temp_files
         /\ IF copied
            THEN pc' = "z_open_db" /\ UNCHANGED zotero_result
            ELSE ZoteroFail("ErrCopyDb")
    /\ UNCHANGED <<zotero_path, db_exists, bbt_exists, rows, zotero_map>>
    /\ ZoteroOthers

\* Connection::open(&temp_db_path)?; then if bbt_db_path.exists()
OpenDb ==
    /\ pc = "z_open_db"
    /\ \E opened \in BOOLEAN :
         IF opened
         THEN /\ pc' = IF bbt_exists THEN "z_copy_bbt" ELSE "z_prepare"
              /\ UNCHANGED zotero_result
         ELSE ZoteroFail("ErrOpenDb")
    /\ UNCHANGED <<zotero_path, db_exists, bbt_exists, temp_files, rows, zotero_map>>
    /\ ZoteroOthers

\* std::fs::copy(&bbt_db_path, &temp_bbt_path)?
CopyBbt ==
    /\ pc = "z_copy_bbt"
    /\ \E copied \in BOOLEAN, created \in BOOLEAN :
         /\ copied => created
         /\ temp_files' = IF created THEN temp_files \cup {TempBbt} ELSE temp_files
         /\ IF copied
            THEN pc' = "z_open_bbt" /\ UNCHANGED zotero_result
            ELSE ZoteroFail("ErrCopyBbt")
    /\ UNCHANGED <<zotero_path, db_exists, bbt_exists, rows, zotero_map>>
    /\ ZoteroOthers

\* Connection::open(&temp_bbt_path)?
OpenBbt ==
    /\ pc = "z_open_bbt"
    /\ \E opened \in BOOLEAN :
         IF opened
         THEN pc' = "z_prepare" /\ UNCHANGED zotero_result
         ELSE ZoteroFail("ErrOpenBbt")
    /\ UNCHANGED <<zotero_path, db_exists, bbt_exists, temp_files, rows, zotero_map>>
    /\ ZoteroOthers

\* conn.prepare(..)?
Prepare ==
    /\ pc = "z_prepare"
    /\ \E prepared \in BOOLEAN :
         IF prepared
         THEN pc' = "z_query_map" /\ UNCHANGED zotero_result
         ELSE ZoteroFail("ErrPrepare")
    /\ UNCHANGED <<zotero_path, db_exists, bbt_exists, temp_files, rows, zotero_map>>
    /\ ZoteroOthers

\* stmt.query_map(..)?
QueryMap ==
    /\ pc = "z_query_map"
    /\ \E queried \in BOOLEAN :
         IF queried
         THEN pc' = "z_rows" /\ UNCHANGED zotero_result
         ELSE ZoteroFail("ErrQuery")
    /\ UNCHANGED <<zotero_path, db_exists, bbt_exists, temp_files, rows, zotero_map>>
    /\ ZoteroOthers

\* one iteration of for row in rows: an Err row is skipped, an Ok row is
\* inserted under its filename
NextRow ==
    /\ pc = "z_rows"
    /\ rows # <<>>
    /\ LET row == Head(rows)
       IN  zotero_map' = IF row.ok
                         THEN MapInsert(zotero_map, Filename(row.path),
                                        Metadata(row, bbt_exists))
                         ELSE zotero_map
    /\ rows' = Tail(rows)
    /\ UNCHANGED <<pc, zotero_path, db_exists, bbt_exists, temp_files, zotero_result>>
    /\ ZoteroOthers

\* let _ = remove_file(&temp_db_path); if let Some(..) { let _ =
\* remove_file(&temp_bbt_path) }; Ok(map).  The outcome of each remove_file
\* is discarded, so a failed removal goes unnoticed.
Cleanup ==
    /\ pc = "z_rows"
    /\ rows = <<>>
    /\ \E removed_db \in BOOLEAN, removed_bbt \in BOOLEAN :
         temp_files' = (temp_files \ (IF removed_db THEN {TempDb} ELSE {}))
                          \ (IF bbt_exists /\ removed_bbt THEN {TempBbt} ELSE {})
    /\ zotero_result' = "Ok"
    /\ pc' = "z_returned"
    /\ UNCHANGED <<zotero_path, db_exists, bbt_exists, rows, zotero_map>>
    /\ ZoteroOthers

NextZotero ==
    \/ CheckDbExists
    \/ CopyDb
    \/ OpenDb
    \/ CopyBbt
    \/ OpenBbt
    \/ Prepare
    \/ QueryMap
    \/ NextRow
    \/ Cleanup

SpecZotero == InitZotero /\ [][NextZotero]_vars

\* the exit paths the claim lists: success, an error from copying or opening
\* the auxiliary database, opening the main copy, preparing or running the
\* attachment query
ListedExits ==
    {"Ok", "ErrCopyBbt", "ErrOpenBbt", "ErrOpenDb", "ErrPrepare", "ErrQuery"}

\* C12: on every listed exit path of build_zotero_map, every temporary
\* database copy created during the call has been removed when the call
\* returns.
C12_SnapshotsRemoved ==
    (pc = "z_returned" /\ zotero_result \in ListedExits) => temp_files = {}

-----------------------------------------------------------------------------
(* Specification Spec: search_pdfs, the parallel fan-out over the corpus *)

Pending == [kind |-> "Pending", matches |-> <<>>]

\* the query items of the corpus runs: literal a and regex k in parallel,
\* literal k and literal "-" as filters, and the regex "(" in parallel
CorpusQueryItems ==
    {[query |-> <<97>>,  use_regex |-> FALSE, query_type |-> "parallel"],
     [query |-> <<107>>, use_regex |-> TRUE,  query_type |-> "parallel"],
     [query |-> <<107>>, use_regex |-> FALSE, query_type |-> "filter"],
     [query |-> <<45>>,  use_regex |-> FALSE, query_type |-> "filter"],
     [query |-> <<40>>,  use_regex |-> TRUE,  query_type |-> "parallel"]}

\* the files of the corpus: unreadable, without pages, or with one page
CorpusFiles == {e \in Extractions : Len(e.pages) <= 1}

\* the attachment rows of the Zotero directory of the corpus: none, a row
\* for "a.pdf" under storage:, or that row and then an Err row
CorpusRows ==
    {<<>>,
     <<Row(<<58>> \o FileName(1), Some(<<80>>), Some(<<84>>),
           Some(<<50, 48, 50, 51>>), None, Some(<<67>>))>>,
     <<Row(<<58>> \o FileName(1), Some(<<80>>), Some(<<84>>),
           Some(<<50, 48, 50, 51>>), None, Some(<<67>>)), RowErr>>}

\* params.zotero_path is None, or Some(dir) with what dir holds
Init ==
    /\ pc = "search_start"
    /\ pdf_files \in SeqsUpTo(CorpusFiles, MaxFiles)
    /\ queries \in SeqsUpTo(CorpusQueryItems, MaxQueries)
    /\ context_words \in ContextChoices
    /\ file_results = <<>>
    /\ search_result = [kind |-> "None", matches |-> <<>>]
    /\ \/ ZoteroIdle
       \/ /\ zotero_path = "Some"
          /\ db_exists \in BOOLEAN
          /\ bbt_exists \in BOOLEAN
          /\ rows \in CorpusRows
          /\ temp_files = {} /\ zotero_map = <<>> /\ zotero_result = "None"
    /\ NormIdle /\ PageIdle /\ DocIdle /\ ScanIdle

\* params.queries.is_empty(), or pdf_files.is_empty(): return Ok(Vec::new())
ReturnEmpty ==
    /\ pc = "search_start"
    /\ queries = <<>> \/ pdf_files = <<>>
    /\ search_result' = Ok(<<>>)
    /\ pc' = "search_done"
    /\ UNCHANGED <<text, norm1, norm2, page_text, query, use_regex, context_words,
                   page_result, extracted, queries, doc_result, pdf_files,
                   file_results>>
    /\ UNCHANGED <<scanVars, zoteroVars>>

\* if let Some(ref zotero_path) = params.zotero_path: build_zotero_map is
\* called (its steps are the actions of SpecZotero)
CallBuildZoteroMap ==
    /\ pc = "search_start"
    /\ queries # <<>> /\ pdf_files # <<>>
    /\ zotero_path = "Some"
    /\ pc' = "z_start"
    /\ UNCHANGED <<text, norm1, norm2, page_text, query, use_regex, context_words,
                   page_result, extracted, queries, doc_result, pdf_files,
                   file_results, search_result>>
    /\ UNCHANGED <<scanVars, zoteroVars>>

\* pdf_files.par_iter(): every file is handed to the worker pool, once
\* build_zotero_map has returned (Ok or Err) or when zotero_path is None
FanOut ==
    /\ \/ pc = "search_start" /\ zotero_path = "None"
       \/ pc = "z_returned"
    /\ queries # <<>> /\ pdf_files # <<>>
    /\ file_results' = [f \in 1..Len(pdf_files) |-> Pending]
    /\ pc' = "fan_out"
    /\ UNCHANGED <<text, norm1, norm2, page_text, query, use_regex, context_words,
                   page_result, extracted, queries, doc_result, pdf_files,
                   search_result>>
    /\ UNCHANGED <<scanVars, zoteroVars>>

\* a worker runs the closure of filter_map on file f; the workers take the
\* files in any order
EvalFile(f) ==
    /\ pc = "fan_out"
    /\ file_results[f].kind = "Pending"
    /\ file_results' = [file_results EXCEPT ![f] =
            search_pdf_with_queries(f, pdf_files[f], queries, context_words,
                                    ZoteroMapArg)]
    /\ UNCHANGED <<pc, text, norm1, norm2, page_text, query, use_regex,
                   context_words, page_result, extracted, queries, doc_result,
                   pdf_files, search_result>>
    /\ UNCHANGED <<scanVars, zoteroVars>>

\* filter_map(...).flatten().collect(): Err(_) => None drops a file; the Ok
\* lists are concatenated in the order of pdf_files
Collected(results) ==
    Concat([f \in 1..Len(results) |->
              IF results[f].kind = "Ok" THEN results[f].matches ELSE <<>>])

\* the outcome of search_pdfs once every worker is through: a worker that
\* never returns keeps the call from returning; otherwise a worker's panic is
\* resumed in the caller; otherwise Ok(all_matches)
JoinWorkers(results) ==
    IF \E f \in 1..Len(results) : results[f].kind = "Hang" THEN Hang
    ELSE IF \E f \in 1..Len(results) : results[f].kind = "Panic" THEN Panic
    ELSE Ok(Collected(results))

Collect ==
    /\ pc = "fan_out"
    /\ \A f \in 1..Len(pdf_files) : file_results[f].kind # "Pending"
    /\ search_result' = JoinWorkers(file_results)
    /\ pc' = "search_done"
    /\ UNCHANGED <<text, norm1, norm2, page_text, query, use_regex, context_words,
                   page_result, extracted, queries, doc_result, pdf_files,
                   file_results>>
    /\ UNCHANGED <<scanVars, zoteroVars>>

Next ==
    \/ ReturnEmpty
    \/ CallBuildZoteroMap
    \/ CheckDbExists
    \/ CopyDb
    \/ OpenDb
    \/ CopyBbt
    \/ OpenBbt
    \/ Prepare
    \/ QueryMap
    \/ NextRow
    \/ Cleanup
    \/ FanOut
    \/ \E f \in 1..Len(pdf_files) : EvalFile(f)
    \/ Collect

Spec == Init /\ [][Next]_vars

\* some query is a regex whose normalized text does not compile
HasMalformedRegex ==
    \E i \in 1..Len(queries) :
        queries[i].use_regex /\ ~ RegexCompiles(normalize_text(queries[i].query))

\* C3: when search_pdfs is invoked over a corpus with at least one PDF and
\* the query list holds a regex query whose normalized text does not compile,
\* the invocation fails: the caller receives an error, not a result list.
C3_MalformedRegexSurfaced ==
    (pc = "search_done" /\ pdf_files # <<>> /\ HasMalformedRegex) =>
        search_result.kind = "Err"

SeqToBag(sq) ==
    [x \in {sq[i] : i \in 1..Len(sq)} |-> Cardinality({i \in 1..Len(sq) : sq[i] = x})]

\* the evaluation of file f, whatever the workers did
Evaluation(f) == search_pdf_with_queries(f, pdf_files[f], queries, context_words,
                                    ZoteroMapArg)

RECURSIVE BagOfSucceeded(_)
\* the union, as a multiset, of the match lists of the files 1..f whose
\* evaluation succeeded
BagOfSucceeded(f) ==
    IF f = 0 THEN EmptyBag
    ELSE BagOfSucceeded(f - 1) (+)
           (IF Evaluation(f).kind = "Ok" THEN SeqToBag(Evaluation(f).matches)
            ELSE EmptyBag)

\* C4: for every corpus and every interleaving of the workers, search_pdfs
\* returns success, and its result, as a multiset, is the union of the match
\* lists of the files whose evaluation succeeded: a file whose extraction or
\* matching fails contributes nothing and does not abort the run.
C4_FailureIsolation ==
    /\ pc = "search_done" =>
          /\ search_result.kind = "Ok"
          /\ SeqToBag(search_result.matches) =
                (IF queries = <<>> THEN EmptyBag ELSE BagOfSucceeded(Len(pdf_files)))
    /\ (pc = "fan_out" /\ \A f \in 1..Len(pdf_files) : file_results[f].kind # "Pending") =>
          \A f \in 1..Len(pdf_files) : file_results[f].kind \in {"Ok", "Err"}

\* what the fan-out does guarantee: a file whose evaluation returns Err is
\* dropped, and the run returns the other files' matches, unless a worker
\* panics or never returns
C4_ErrIsDropped ==
    (pc = "search_done"
       /\ \A f \in 1..Len(pdf_files) : Evaluation(f).kind \in {"Ok", "Err"}) =>
        /\ search_result.kind = "Ok"
        /\ SeqToBag(search_result.matches) =
              (IF queries = <<>> THEN EmptyBag ELSE BagOfSucceeded(Len(pdf_files)))

-----------------------------------------------------------------------------
(* Specification SpecScan: the while-let loop of the literal branch of
   search_in_page, one iteration per step *)

\* page texts over k, K, KELVIN SIGN and SPACE; queries over k, K and '-'
ScanPageChars == {107, 75, 8490, 32}
ScanQueryChars == {107, 75, 45}

\* normalized_page, normalized_page_lower and search_query of the call
ScanPage == normalize_text(page_text)
ScanLower == to_lowercase(ScanPage)
ScanQuery == to_lowercase(normalize_text(query))

\* normalized_page_lower[search_start..].find(&search_query): the char offset
\* of the match in normalized_page_lower, or -1 for None
ScanFind ==
    LiteralFindFrom(ScanLower, ScanQuery, CharBoundary(ScanLower, search_start))

\* absolute_pos and match_end of the iteration (byte offsets)
ScanAbsolutePos == ByteLen(SubSeq(ScanLower, 1, ScanFind))
ScanMatchEnd == ScanAbsolutePos + ByteLen(ScanQuery)

\* the slices of normalized_page at absolute_pos and match_end are on char
\* boundaries
ScanSlicesOk ==
    /\ CharBoundary(ScanPage, ScanAbsolutePos) # -1
    /\ CharBoundary(ScanPage, ScanMatchEnd) # -1

InitScan ==
    /\ pc = "scan_loop"
    /\ page_text \in Strings(ScanPageChars, MaxScanPageLen)
    /\ query \in Strings(ScanQueryChars, MaxScanQueryLen)
    /\ use_regex = FALSE
    /\ context_words \in ContextChoices
    /\ search_start = 0
    /\ page_result = [kind |-> "Running", matches |-> <<>>]
    /\ queries = <<>>
    /\ NormIdle /\ DocIdle /\ CorpusIdle /\ ZoteroIdle

\* one iteration of the loop body: push the tuple, search_start = match_end.
\* The model follows the loop for at most MaxScanMatches iterations.
ScanMatch ==
    /\ pc = "scan_loop"
    /\ ScanFind # -1
    /\ ScanSlicesOk
    /\ Len(page_result.matches) < MaxScanMatches
    /\ LET s == CharBoundary(ScanPage, ScanAbsolutePos)
           e == CharBoundary(ScanPage, ScanMatchEnd)
       IN  page_result' =
             [kind |-> "Running",
              matches |-> Append(page_result.matches,
                  MatchTuple(SubSeq(ScanPage, 1, s),
                             SubSeq(ScanPage, s + 1, e),
                             SubSeq(ScanPage, e + 1, Len(ScanPage)),
                             context_words))]
    /\ search_start' = ScanMatchEnd
    /\ UNCHANGED <<pc, text, norm1, norm2, page_text, query, use_regex,
                   context_words, extracted, queries, doc_result, pdf_files,
                   file_results, search_result>>
    /\ UNCHANGED zoteroVars

\* the iteration slices normalized_page off a char boundary: the call panics
ScanPanic ==
    /\ pc = "scan_loop"
    /\ ScanFind # -1
    /\ ~ ScanSlicesOk
    /\ page_result' = Panic
    /\ pc' = "scan_done"
    /\ UNCHANGED <<text, norm1, norm2, page_text, query, use_regex,
                   context_words, extracted, queries, doc_result, pdf_files,
                   file_results, search_result>>
    /\ UNCHANGED <<scanVars, zoteroVars>>

\* find returns None: the loop ends and the call returns Ok(matches)
ScanExit ==
    /\ pc = "scan_loop"
    /\ ScanFind = -1
    /\ page_result' = Ok(page_result.matches)
    /\ pc' = "scan_done"
    /\ UNCHANGED <<text, norm1, norm2, page_text, query, use_regex,
                   context_words, extracted, queries, doc_result, pdf_files,
                   file_results, search_result>>
    /\ UNCHANGED <<scanVars, zoteroVars>>

NextScan == ScanMatch \/ ScanPanic \/ ScanExit

SpecScan == InitScan /\ [][NextScan]_vars

\* the loop, step by step, ends with the outcome of search_in_page; and it
\* cannot end when search_in_page is Hang
ScanAgrees ==
    /\ pc = "scan_done" =>
          page_result = search_in_page(page_text, query, context_words, FALSE)
    /\ search_in_page(page_text, query, context_words, FALSE).kind = "Hang" =>
          /\ pc = "scan_loop"
          /\ ScanFind # -1 /\ ScanSlicesOk

\* C11: for every page text and every literal query, also one whose
\* normalized form is empty, the literal scan terminates and returns a list
\* without panicking: every iteration of the loop resumes strictly after the
\* position it started from (so the loop runs out of page), a call that ends
\* ends with Ok, and an empty page yields no matches.
C11_LiteralScanTerminates ==
    [][/\ (pc = "scan_loop" /\ pc' = "scan_loop") => search_start' > search_start
       /\ pc' = "scan_done" =>
             /\ page_result'.kind = "Ok"
             /\ page_text = <<>> => page_result'.matches = <<>>]_vars

====
